---- MODULE Spec2Model ----
(***************************************************************************)
(* Model of hikepy's osm_query.py: the memoized lookup layer (lru_cache    *)
(* wrappers around the OSM and Overpass clients), the edge table builder   *)
(* (get_relation_members / get_relation) and the track reconstruction      *)
(* (create_track_points).                                                  *)
(***************************************************************************)
EXTENDS Integers, Sequences, FiniteSets, TLC

(* ---------------------------- bounds ----------------------------------- *)
\* longest member list of a relation handed to create_track_points
MaxMembers == 3
\* the walk of create_track_points is cut once the track is this long
MaxTrack == 7
\* number of direct lookups in one session of the lookup layer
MaxCalls == 4
\* keys 1..MaxKey are looked up directly
MaxKey == 3
\* largest maxsize the lru_cache decorator is exercised with in SpecLru
MaxCap == 2

(* ------------------------ program constants ---------------------------- *)
RelationMaxsize == 128
WayMaxsize == 2048
NodeMaxsize == 4096

CacheNames ==
    {"get_relation_by_id", "get_relation_by_name", "get_way_by_id", "get_node_by_id"}

\* maxsize argument of each lru_cache decorator
Maxsize ==
    [get_relation_by_id |-> RelationMaxsize,
     get_relation_by_name |-> RelationMaxsize,
     get_way_by_id |-> WayMaxsize,
     get_node_by_id |-> NodeMaxsize]

(* ------------------------- the remote source --------------------------- *)
\* Node ids.  Node 1 is a small id: it is also a row label of any data frame
\* with two or more rows.
Nodes == {1, 11, 12, 13, 14, 15}

\* osm_api.WayGet(way_id)['nd'] for the ways the remote source holds
WayDb ==
    << <<11, 12, 13>>,
       <<13, 14>>,
       <<15, 14>>,
       <<13, 15>>,
       <<1, 11>> >>

\* a way id the remote source does not hold (a broken member reference)
DanglingRef == Len(WayDb) + 1

WayRefs == DOMAIN WayDb \cup {DanglingRef}

\* what the remote source returns for a key it holds
RemoteValue(fn, key) ==
    IF fn = "get_way_by_id" THEN WayDb[key] ELSE <<key>>

\* the keys the remote source holds
RemoteHas(fn, key) == key \in DOMAIN WayDb

None == << >>

\* the value the model keeps in a node variable outside a call
NoNode == CHOOSE n \in Nodes : \A m \in Nodes : n <= m

\* no earlier result to compare with
NoPrev ==
    [valid |-> FALSE, skip |-> TRUE, role |-> "", df |-> << >>, l_nodes |-> << >>,
     ups |-> {}]

VARIABLES
    cache,        \* per decorated function: its entries, least recently used first
    maxsize,      \* per decorated function: the decorator's maxsize
    last,         \* the most recent lookup: function, key, whether the remote
                  \* source was reachable, outcome
    calls,        \* direct lookups made so far
    uses,         \* per decorated function: the keys direct lookups returned,
                  \* in the order of their last use (fetch or hit), oldest first
    pc,           \* position of the call in progress
    err,          \* the exception that left the call, if any
    op,           \* the function called: create_track_points or get_relation_members
    skip,         \* argument of get_relation_members
    role,         \* argument of get_relation_members
    relation,     \* argument: relation['member']
    start_node,   \* argument of create_track_points
    members,      \* the members left after skip_ways
    idx,          \* get_relation_nodes: the next member to fetch
    failed,       \* get_relation_nodes: positions of members whose fetch raised
    df,           \* rows (way, begin, end); row i of the model has label i - 1
    l_nodes,      \* the node list of each row
    ups,          \* get_relation_members: how the remote source answered the
                  \* requests of this call for ways it holds (reachable or not)
    prev,         \* what the call before this one returned, when that was a
                  \* get_relation_members with the same arguments during which
                  \* the remote source did not change
    current_way,  \* None, or the Series check_node returned
    current_node,
    reverse,
    track_points

lookupVars == <<cache, maxsize, last, calls, uses>>
buildVars == <<op, skip, role, relation, start_node, members, idx, failed, df,
               l_nodes, ups, prev>>
walkVars == <<current_way, current_node, reverse, track_points>>
vars == <<cache, maxsize, last, calls, uses, pc, err, op, skip, role, relation,
          start_node, members, idx, failed, df, l_nodes, ups, prev, current_way,
          current_node, reverse, track_points>>

(* --------------------------- lru_cache --------------------------------- *)
CacheKeys(c) == {c[i].key : i \in DOMAIN c}

CacheIndex(c, key) == CHOOSE i \in DOMAIN c : c[i].key = key

CacheValue(c, key) == c[CacheIndex(c, key)].value

RemoveAt(s, i) == SubSeq(s, 1, i - 1) \o SubSeq(s, i + 1, Len(s))

\* faulty variant: a hit leaves the entry where it is
CacheRenew_stale(c, key) == c

\* a hit moves the entry to the most recently used end
CacheRenew(c, key) == Append(RemoveAt(c, CacheIndex(c, key)), c[CacheIndex(c, key)])

\* faulty variant: a miss stores the result and never drops an entry
CacheStore_noevict(c, size, key, value) == Append(c, [key |-> key, value |-> value])

\* a miss stores the result and, over maxsize, drops the least recently used entry
CacheStore(c, size, key, value) ==
    LET stored == Append(c, [key |-> key, value |-> value])
    IN  IF Len(stored) > size THEN Tail(stored) ELSE stored

\* faulty variant: a failed request is repeated once
RemoteGet_retry(fn, key, up) ==
    IF up /\ RemoteHas(fn, key)
    THEN [status |-> "ok", value |-> RemoteValue(fn, key), requests |-> 1]
    ELSE [status |-> "LookupError", value |-> None, requests |-> 2]

\* the wrapped function: one request to the remote source
RemoteGet(fn, key, up) ==
    IF up /\ RemoteHas(fn, key)
    THEN [status |-> "ok", value |-> RemoteValue(fn, key), requests |-> 1]
    ELSE [status |-> "LookupError", value |-> None, requests |-> 1]

\* faulty variant: a failure is stored like a result
lru_cache_keepfailure(c, size, fn, key, up) ==
    IF key \in CacheKeys(c)
    THEN [cache |-> CacheRenew(c, key), status |-> "ok",
          value |-> CacheValue(c, key), requests |-> 0]
    ELSE LET got == RemoteGet(fn, key, up)
         IN  [cache |-> CacheStore(c, size, key, got.value), status |-> got.status,
              value |-> got.value, requests |-> got.requests]

\* faulty variant: a cached entry is not found again
lru_cache_nohit(c, size, fn, key, up) ==
    IF key \in CacheKeys(c)
    THEN [cache |-> c, status |-> "LookupError", value |-> None, requests |-> 0]
    ELSE LET got == RemoteGet(fn, key, up)
         IN  IF got.status = "ok"
             THEN [cache |-> CacheStore(c, size, key, got.value), status |-> "ok",
                   value |-> got.value, requests |-> got.requests]
             ELSE [cache |-> c, status |-> got.status,
                   value |-> got.value, requests |-> got.requests]

\* faulty variant: a hit asks the remote source all the same
lru_cache_refetch(c, size, fn, key, up) ==
    IF key \in CacheKeys(c)
    THEN [cache |-> CacheRenew(c, key), status |-> "ok",
          value |-> CacheValue(c, key), requests |-> 1]
    ELSE LET got == RemoteGet(fn, key, up)
         IN  IF got.status = "ok"
             THEN [cache |-> CacheStore(c, size, key, got.value), status |-> "ok",
                   value |-> got.value, requests |-> got.requests]
             ELSE [cache |-> c, status |-> got.status,
                   value |-> got.value, requests |-> got.requests]

\* one call of a function decorated with lru_cache(maxsize=size)
lru_cache(c, size, fn, key, up) ==
    IF key \in CacheKeys(c)
    THEN [cache |-> CacheRenew(c, key), status |-> "ok",
          value |-> CacheValue(c, key), requests |-> 0]
    ELSE LET got == RemoteGet(fn, key, up)
         IN  IF got.status = "ok"
             THEN [cache |-> CacheStore(c, size, key, got.value), status |-> "ok",
                   value |-> got.value, requests |-> got.requests]
             ELSE [cache |-> c, status |-> got.status,
                   value |-> got.value, requests |-> got.requests]

\* the lookup before this one was the same call and it failed
Again(fn, key) == last.status = "LookupError" /\ last.fn = fn /\ last.key = key

\* a lookup with the remote source reachable (up) or not
Lookup(fn, key, up) ==
    LET r == lru_cache(cache[fn], maxsize[fn], fn, key, up)
    IN  /\ cache' = [cache EXCEPT ![fn] = r.cache]
        /\ last' = [fn |-> fn, key |-> key, up |-> up, status |-> r.status,
                    value |-> r.value, requests |-> r.requests,
                    again |-> Again(fn, key)]

\* the key becomes the most recently used one
Used(seq, key) == Append(SelectSeq(seq, LAMBDA k : k # key), key)

DirectKeys == 1 .. MaxKey \cup {DanglingRef}

DirectLookup(fn) ==
    /\ pc = "idle"
    /\ calls < MaxCalls
    /\ \E key \in DirectKeys, up \in BOOLEAN : Lookup(fn, key, up)
    /\ calls' = calls + 1
    /\ uses' = IF last'.status = "ok"
               THEN [uses EXCEPT ![fn] = Used(@, last'.key)]
               ELSE uses
    /\ UNCHANGED <<maxsize, pc, err>>
    /\ UNCHANGED buildVars
    /\ UNCHANGED walkVars

get_relation_by_id == DirectLookup("get_relation_by_id")

get_relation_by_name == DirectLookup("get_relation_by_name")

get_way_by_id == DirectLookup("get_way_by_id")

get_node_by_id == DirectLookup("get_node_by_id")

(* ----------------------- get_relation_members --------------------------- *)
\* members of a relation: a way reference and a role tag; one member lacks the tag
MemberPool ==
    {[ref |-> r, role |-> ""] : r \in WayRefs}
        \cup {[ref |-> 4, role |-> "alternative"]}
        \cup {[ref |-> 2]}

Relations == UNION {[1 .. n -> MemberPool] : n \in 0 .. MaxMembers}

\* way[key] raises KeyError for a member without the key
HasKeyError(ways, key) == \E i \in DOMAIN ways : key \notin DOMAIN ways[i]

\* [way for way in ways if not way[key] == value]
\* faulty variant: the ways with the role are the ones kept
skip_ways_keep(ways, key, value) == SelectSeq(ways, LAMBDA way : way[key] = value)

skip_ways(ways, key, value) == SelectSeq(ways, LAMBDA way : way[key] # value)

(* --------------------------- get_relation ------------------------------ *)
\* get_way_nodes: the way's node list, None when the lookup raised
get_way_nodes(r) == IF r.status = "ok" THEN r.value ELSE None

\* faulty variant: the new row is put in front
append_row_front(frame, ref, nd) ==
    <<[way |-> ref, begin |-> nd[1], end |-> nd[Len(nd)]]>> \o frame

\* faulty variant: begin and end are taken from the wrong ends
append_row_swapped(frame, ref, nd) ==
    Append(frame, [way |-> ref, begin |-> nd[Len(nd)], end |-> nd[1]])

\* l_way.append(way['ref']); l_begin.append(nd[0]); l_end.append(nd[-1])
append_row(frame, ref, nd) ==
    Append(frame, [way |-> ref, begin |-> nd[1], end |-> nd[Len(nd)]])

\* where a call goes once its data frame is complete
AfterBuild(f) == IF f = "create_track_points" THEN "walk" ELSE "done"

\* one round of the loop of get_relation_nodes; after the last member the
\* data frame is complete: create_track_points starts its walk,
\* get_relation_members returns
get_relation ==
    /\ pc = "fetch"
    /\ \E up \in BOOLEAN :
       LET way == members[idx]
           r == lru_cache(cache["get_way_by_id"], maxsize["get_way_by_id"],
                          "get_way_by_id", way.ref, up)
           nd == get_way_nodes(r)
       IN  /\ cache' = [cache EXCEPT !["get_way_by_id"] = r.cache]
           /\ last' = [fn |-> "get_way_by_id", key |-> way.ref, up |-> up,
                       status |-> r.status, value |-> r.value,
                       requests |-> r.requests,
                       again |-> Again("get_way_by_id", way.ref)]
           /\ failed' = IF r.status = "ok" THEN failed ELSE failed \cup {idx}
           /\ ups' = IF op = "get_relation_members" /\ r.requests > 0
                         /\ RemoteHas("get_way_by_id", way.ref)
                      THEN ups \cup {up}
                      ELSE ups
           /\ IF nd # << >>
              THEN /\ df' = append_row(df, way.ref, nd)
                   /\ l_nodes' = Append(l_nodes, nd)
              ELSE UNCHANGED <<df, l_nodes>>
    /\ idx' = idx + 1
    /\ pc' = IF idx' > Len(members) THEN AfterBuild(op) ELSE "fetch"
    /\ UNCHANGED <<maxsize, calls, uses, err, op, skip, role, relation, start_node,
                   members, prev>>
    /\ UNCHANGED walkVars

(* ------------------------ create_track_points -------------------------- *)
\* `x in df.begin` tests the row labels 0 .. len(df) - 1 of the Series
InSeries(frame, x) == x \in 0 .. Len(frame) - 1

\* int(series): defined for a Series of exactly one element
IntOk(series) == Len(series) = 1

int(series) == series[1]

\* faulty variant: an empty match is returned instead of raised
check_node_noraise(frame, way, node_id, node) ==
    IF InSeries(frame, node_id) \/ (way # None /\ ~IntOk(way))
    THEN [raised |-> TRUE, way |-> None]
    ELSE LET rows == SelectSeq(frame,
                         LAMBDA row : /\ (way = None \/ row.way # int(way))
                                      /\ row[node] = node_id)
         IN  [raised |-> FALSE, way |-> [i \in DOMAIN rows |-> rows[i].way]]

\* faulty variant: the way used last is not left out of the search
check_node_backtrack(frame, way, node_id, node) ==
    IF InSeries(frame, node_id) \/ (way # None /\ ~IntOk(way))
    THEN [raised |-> TRUE, way |-> None]
    ELSE LET rows == SelectSeq(frame, LAMBDA row : row[node] = node_id)
             found == [i \in DOMAIN rows |-> rows[i].way]
         IN  [raised |-> found = << >>, way |-> found]

\* check_node: the `way` column of the matching rows; raised when the node is
\* a row label, when int(current_way) fails or when no row matches
check_node(frame, way, node_id, node) ==
    IF InSeries(frame, node_id) \/ (way # None /\ ~IntOk(way))
    THEN [raised |-> TRUE, way |-> None]
    ELSE LET rows == SelectSeq(frame,
                         LAMBDA row : /\ (way = None \/ row.way # int(way))
                                      /\ row[node] = node_id)
             found == [i \in DOMAIN rows |-> rows[i].way]
         IN  [raised |-> found = << >>, way |-> found]

\* get_segment: position of the first row of that way (label + 1)
get_segment(frame, way) ==
    CHOOSE i \in DOMAIN frame :
        /\ frame[i].way = int(way)
        /\ \A j \in 1 .. i - 1 : frame[j].way # int(way)

Reverse(s) == [i \in DOMAIN s |-> s[Len(s) + 1 - i]]

get_nodes(nodes, current_segment, rev) ==
    IF rev THEN Reverse(nodes[current_segment]) ELSE nodes[current_segment]

\* faulty variant: the stored list itself is reversed
StoredNodes_inplace(nodes, current_segment, rev) ==
    IF rev THEN Reverse(nodes[current_segment]) ELSE nodes[current_segment]

\* the stored list after get_nodes: nodes[current_segment][:] is a copy, and
\* the copy is what gets reversed
StoredNodes(nodes, current_segment, rev) == nodes[current_segment]

\* the list object of a way is shared by the rows of that way and by the entry
\* of the way in the cache of get_way_by_id: all of them hold what is stored
Shared(nodes, frame, way, stored) ==
    [i \in DOMAIN nodes |-> IF frame[i].way = way THEN stored ELSE nodes[i]]

SharedCache(c, way, stored) ==
    [i \in DOMAIN c |-> IF c[i].key = way THEN [c[i] EXCEPT !.value = stored] ELSE c[i]]

extend_track_points(track, list_of_nodes, rev) ==
    IF rev
    THEN track \o SubSeq(list_of_nodes, 1, Len(list_of_nodes) - 1)
    ELSE track \o Tail(list_of_nodes)

get_node_list(list_of_nodes) == list_of_nodes[Len(list_of_nodes)]

\* the head of get_relation_members(relation, skip, role) called by f: with
\* skip the members are filtered by role, and get_relation starts on what is left
Call(f, s, r) ==
    /\ pc = "idle"
    /\ op' = f
    /\ skip' = s
    /\ role' = r
    /\ IF s /\ HasKeyError(relation, "role")
       THEN /\ pc' = "error"
            /\ err' = "KeyError"
            /\ UNCHANGED members
       ELSE /\ members' = IF s THEN skip_ways(relation, "role", r) ELSE relation
            /\ pc' = IF members' = << >> THEN AfterBuild(f) ELSE "fetch"
            /\ err' = ""
    /\ prev' = IF f = "get_relation_members" /\ prev.skip = s /\ prev.role = r
               THEN prev
               ELSE NoPrev
    /\ UNCHANGED <<relation, idx, failed, df, l_nodes, ups>>
    /\ UNCHANGED lookupVars

Roles == {"", "alternative"}

\* get_relation_members(relation, skip, role), called on its own; without skip
\* the role is not looked at and keeps its default
get_relation_members ==
    /\ \E s \in BOOLEAN, r \in Roles :
          /\ s \/ r = "alternative"
          /\ Call("get_relation_members", s, r)
    /\ UNCHANGED start_node
    /\ UNCHANGED walkVars

\* create_track_points(relation, start_node): get_relation_members(relation)
\* with its defaults skip=True, role='alternative', then the locals of the walk
create_track_points ==
    /\ Call("create_track_points", TRUE, "alternative")
    /\ \E node \in Nodes :
          /\ start_node' = node
          /\ current_node' = node
          /\ track_points' = <<node>>
    /\ current_way' = None
    /\ reverse' = FALSE

\* one round of `while True`
walk ==
    /\ pc = "walk"
    /\ Len(track_points) < MaxTrack
    /\ LET fwd == check_node(df, current_way, current_node, "begin")
           bwd == check_node(df, current_way, current_node, "end")
       IN  IF fwd.raised /\ bwd.raised
           THEN /\ pc' = "done"
                /\ reverse' = TRUE
                /\ UNCHANGED <<err, current_way, current_node, track_points,
                               l_nodes, cache>>
           ELSE LET rev == fwd.raised
                    way == IF rev THEN bwd.way ELSE fwd.way
                IN  /\ reverse' = rev
                    /\ current_way' = way
                    /\ IF IntOk(way)
                       THEN LET current_segment == get_segment(df, way)
                                list_of_nodes == get_nodes(l_nodes, current_segment, rev)
                                stored == StoredNodes(l_nodes, current_segment, rev)
                            IN  /\ current_node' = get_node_list(list_of_nodes)
                                /\ track_points' = extend_track_points(
                                       track_points, list_of_nodes, rev)
                                /\ l_nodes' = Shared(l_nodes, df, int(way), stored)
                                /\ cache' = [cache EXCEPT !["get_way_by_id"] =
                                                SharedCache(@, int(way), stored)]
                                /\ UNCHANGED <<pc, err>>
                       ELSE /\ pc' = "error"
                            /\ err' = "TypeError"
                            /\ UNCHANGED <<current_node, track_points, l_nodes, cache>>
    /\ UNCHANGED <<maxsize, last, calls, uses>>
    /\ UNCHANGED <<op, skip, role, relation, start_node, members, idx, failed, df,
                   ups, prev>>

\* the call has returned or raised and its locals are gone; the caller may
\* call again
return ==
    /\ pc \in {"done", "error"}
    /\ pc' = "idle"
    /\ err' = ""
    /\ prev' = IF op = "get_relation_members" /\ pc = "done" /\ Cardinality(ups) <= 1
               THEN [valid |-> TRUE, skip |-> skip, role |-> role, df |-> df,
                     l_nodes |-> l_nodes, ups |-> ups]
               ELSE NoPrev
    /\ op' = ""
    /\ skip' = TRUE
    /\ role' = ""
    /\ start_node' = NoNode
    /\ members' = << >>
    /\ idx' = 1
    /\ failed' = {}
    /\ df' = << >>
    /\ l_nodes' = << >>
    /\ ups' = {}
    /\ current_way' = None
    /\ current_node' = NoNode
    /\ reverse' = FALSE
    /\ track_points' = << >>
    /\ UNCHANGED relation
    /\ UNCHANGED lookupVars

(* --------------------------- specifications ---------------------------- *)
NoCall ==
    [fn |-> "", key |-> 0, up |-> TRUE, status |-> "", value |-> << >>, requests |-> 0,
     again |-> FALSE]

InitLocals ==
    /\ pc = "idle"
    /\ err = ""
    /\ op = ""
    /\ skip = TRUE
    /\ role = ""
    /\ start_node = NoNode
    /\ members = << >>
    /\ idx = 1
    /\ failed = {}
    /\ df = << >>
    /\ l_nodes = << >>
    /\ ups = {}
    /\ prev = NoPrev
    /\ current_way = None
    /\ current_node = NoNode
    /\ reverse = FALSE
    /\ track_points = << >>

\* the program: caches empty, capacities as decorated, a relation to work on
Init ==
    /\ cache = [fn \in CacheNames |-> << >>]
    /\ maxsize = Maxsize
    /\ last = NoCall
    /\ calls = 0
    /\ uses = [fn \in CacheNames |-> << >>]
    /\ relation \in Relations
    /\ InitLocals

Next ==
    \/ create_track_points
    \/ get_relation_members
    \/ get_relation
    \/ walk
    \/ return

Spec == Init /\ [][Next]_vars

\* the lookup layer alone, its decorator exercised with small capacities
InitLru ==
    /\ cache = [fn \in CacheNames |-> << >>]
    /\ \E n \in 1 .. MaxCap : maxsize = [fn \in CacheNames |-> n]
    /\ last = NoCall
    /\ calls = 0
    /\ uses = [fn \in CacheNames |-> << >>]
    /\ relation = << >>
    /\ InitLocals

NextLru ==
    \/ get_relation_by_id
    \/ get_relation_by_name
    \/ get_way_by_id
    \/ get_node_by_id

SpecLru == InitLru /\ [][NextLru]_vars

(* ------------------------------ claims --------------------------------- *)
\* the row labels of the data frame, as positions of the model
Rows == DOMAIN df

\* the rows other than the last used way that touch the current node at `node`
Candidates(node) ==
    {i \in Rows : /\ (current_way = None \/ df[i].way \notin {current_way[k] : k \in DOMAIN current_way})
                  /\ df[i][node] = current_node}

\* the node list of row i as walked away from point p
Oriented(i, p) == IF df[i].begin = p THEN l_nodes[i] ELSE Reverse(l_nodes[i])

\* the track of a linear chain: from point p, as long as exactly one of the
\* rows not yet walked touches p, walk it; << >> when the rows are no chain
RECURSIVE ChainWalk(_, _, _)
ChainWalk(rest, p, acc) ==
    LET touching == {i \in rest : df[i].begin = p \/ df[i].end = p}
    IN  IF rest = {} THEN acc
        ELSE IF Cardinality(touching) # 1 THEN << >>
        ELSE LET i == CHOOSE j \in touching : TRUE
                 seq == Oriented(i, p)
             IN  ChainWalk(rest \ {i}, seq[Len(seq)], acc \o Tail(seq))

ChainTrack == ChainWalk(Rows, start_node, <<start_node>>)

NoRepeats(s) == Cardinality({s[i] : i \in DOMAIN s}) = Len(s)

\* the data frame is a linear chain of segments and start_node is one of its ends
IsChain == df # << >> /\ ChainTrack # << >> /\ NoRepeats(ChainTrack)

\* C1: from a true end of a linear chain of segments (each in either stored
\* orientation) create_track_points returns the chain's points, each once, in
\* walk order.
C1_ChainTrack ==
    (op = "create_track_points" /\ pc = "done" /\ IsChain) => track_points = ChainTrack

\* C2: a segment reached through its end is walked tail to head and every
\* point but the junction is appended: W1 [A,B,C], W2 [C,D], W3 [E,D] from A
\* gives [A,B,C,D,E].
C2_ReversedSegment ==
    (/\ op = "create_track_points"
     /\ pc = "done"
     /\ l_nodes = << <<11, 12, 13>>, <<13, 14>>, <<15, 14>> >>
     /\ start_node = 11)
        => track_points = <<11, 12, 13, 14, 15>>

\* the row a branch is to be resolved to: the first begin match in table
\* order, else the first end match
FirstRow(S) == CHOOSE i \in S : \A j \in S : i <= j

BranchRow ==
    IF Candidates("begin") # {} THEN FirstRow(Candidates("begin"))
    ELSE FirstRow(Candidates("end"))

AtBranch ==
    \/ Cardinality(Candidates("begin")) >= 2
    \/ Candidates("begin") = {} /\ Cardinality(Candidates("end")) >= 2

\* C3: when the current node is the begin (or the end) of two or more rows
\* other than the last used way, the round of the walk extends the track with
\* the first such row in table order and continues from its far end.
C3_FirstMatch ==
    [][(pc = "walk" /\ AtBranch /\ <<pc, track_points, current_way>> # <<pc, track_points, current_way>>')
          => LET seq == Oriented(BranchRow, current_node)
             IN  /\ pc' = "walk"
                 /\ track_points' = track_points \o Tail(seq)
                 /\ current_node' = seq[Len(seq)]]_vars

\* C4: whatever the edge table and the start node, the walk of
\* create_track_points never ends in an error.
C4_NeverErrors == ~(pc = "error" /\ err = "TypeError")

\* C5: with an empty edge table the walk ends in its first round and the
\* track is [start_node].
C5_EmptyTable ==
    (op = "create_track_points" /\ df = << >>) =>
        /\ pc = "walk" =>
              /\ check_node(df, current_way, current_node, "begin").raised
              /\ check_node(df, current_way, current_node, "end").raised
              /\ track_points = <<start_node>>
        /\ pc = "done" => track_points = <<start_node>>
        /\ pc = "error" => err = "KeyError"

\* an empty table was walked: every member was filtered out or failed
C5_Witness ==
    /\ op = "create_track_points"
    /\ pc = "done"
    /\ df = << >>
    /\ members # << >>
    /\ track_points = <<start_node>>

\* a direct lookup was made in this step; last' describes it
IsLookup == calls' = calls + 1

\* C6: for each of the four decorated lookups, a call whose key is in that
\* function's cache returns the stored value without a request to the remote
\* source; a call whose key is absent makes exactly one request and, when it
\* succeeds, stores the result.
C6_HitsAreLocal ==
    [][IsLookup =>
          LET fn == last'.fn
              key == last'.key
          IN  IF key \in CacheKeys(cache[fn])
              THEN /\ last'.requests = 0
                   /\ last'.status = "ok"
                   /\ last'.value = CacheValue(cache[fn], key)
              ELSE /\ last'.requests = 1
                   /\ last'.status = "ok" =>
                         /\ key \in CacheKeys(cache'[fn])
                         /\ CacheValue(cache'[fn], key) = last'.value
                         /\ last'.value = RemoteValue(fn, key)]_vars

\* a key of a full cache was served from the cache while the remote source
\* was unreachable
C6_Witness ==
    /\ last.fn = "get_relation_by_name"
    /\ last.requests = 0
    /\ last.status = "ok"
    /\ ~last.up
    /\ Len(cache[last.fn]) = maxsize[last.fn]

\* the cached key whose last use (fetch or hit) is the oldest
UsedAt(fn, key) == CHOOSE i \in DOMAIN uses[fn] : uses[fn][i] = key

LeastRecentlyUsed(fn) ==
    CHOOSE k \in CacheKeys(cache[fn]) :
        \A j \in CacheKeys(cache[fn]) : UsedAt(fn, k) <= UsedAt(fn, j)

\* C7: in a full cache, fetching a key that is not cached evicts exactly the
\* entry whose last use, fetch or hit, is the oldest.
C7_EvictsLeastRecentlyUsed ==
    [][(/\ IsLookup
        /\ last'.key \notin CacheKeys(cache[last'.fn])
        /\ Len(cache[last'.fn]) = maxsize[last'.fn]
        /\ last'.status = "ok")
          => LET fn == last'.fn
             IN  /\ CacheKeys(cache'[fn]) =
                        (CacheKeys(cache[fn]) \ {LeastRecentlyUsed(fn)}) \cup {last'.key}
                 /\ \A k \in CacheKeys(cache[fn]) \ {LeastRecentlyUsed(fn)} :
                        CacheValue(cache'[fn], k) = CacheValue(cache[fn], k)
                 /\ \A g \in CacheNames \ {fn} : cache'[g] = cache[g]]_vars

\* way 1 fetched, way 2 fetched, way 1 hit, way 3 fetched: way 2 was evicted
C7_Witness ==
    /\ maxsize["get_way_by_id"] = 2
    /\ calls = 4
    /\ uses["get_way_by_id"] = <<2, 1, 3>>
    /\ CacheKeys(cache["get_way_by_id"]) = {1, 3}
    /\ last.requests = 1

\* C8: no cache ever holds more entries than its maxsize, and the relation
\* caches are smaller (128) than the way cache (2048) and the node cache (4096).
C8_CacheBounded ==
    /\ \A fn \in CacheNames : Len(cache[fn]) <= maxsize[fn]
    /\ \A fn \in CacheNames : Cardinality(CacheKeys(cache[fn])) = Len(cache[fn])
    /\ Maxsize["get_relation_by_id"] = 128
    /\ Maxsize["get_relation_by_name"] = 128
    /\ Maxsize["get_way_by_id"] = 2048
    /\ Maxsize["get_node_by_id"] = 4096
    /\ Maxsize["get_relation_by_id"] < Maxsize["get_way_by_id"]
    /\ Maxsize["get_relation_by_id"] < Maxsize["get_node_by_id"]
    /\ Maxsize["get_way_by_id"] # Maxsize["get_node_by_id"]

\* a full cache from which a key fetched earlier is gone
C8_Witness ==
    \E fn \in CacheNames :
        /\ Len(cache[fn]) = maxsize[fn]
        /\ \E i \in DOMAIN uses[fn] : uses[fn][i] \notin CacheKeys(cache[fn])

\* the remote source answers the request of the lookup in this step
RemoteAnswers == last'.up /\ RemoteHas(last'.fn, last'.key)

C10_BestEffort ==
    (pc \in {"walk", "done", "error"} /\ err # "KeyError" /\ Cardinality(failed) = 1)
        => /\ Len(df) = Len(members) - 1
           /\ Len(l_nodes) = Len(members) - 1
           /\ pc # "error"

(* ---------------------- the table of segments -------------------------- *)
\* the call has evaluated its arguments and did not stop on a member
Built == pc # "idle" /\ err # "KeyError"

\* C11: a member without its role field makes the construction of the table
\* stop with an explicit error, whatever the filter setting; the member is not
\* passed over and no table is returned.
C11_MalformedAborts ==
    (pc \in {"walk", "done", "error"} /\ HasKeyError(relation, "role"))
        => (pc = "error" /\ err \in {"MalformedRelationError", "KeyError"})

\* positions of the members fetched so far whose fetch gave a node list
Survivors == (1 .. idx - 1) \ failed

\* the i-th surviving position
Survivor(i) == CHOOSE j \in Survivors : Cardinality({k \in Survivors : k < j}) = i - 1

\* C12: the rows of the table are the surviving members, one row each, in the
\* order of the members.
C12_RowOrder ==
    Built => /\ Len(df) = Cardinality(Survivors)
             /\ \A i \in DOMAIN df : df[i].way = members[Survivor(i)].ref

\* the middle one of three members failed and the two rows left are different ways
C12_Witness ==
    /\ pc = "done"
    /\ Len(members) = 3
    /\ failed = {2}
    /\ Len(df) = 2
    /\ df[1].way # df[2].way

\* C13: the table and the list of node lists have the same length; the i-th
\* node list is the one fetched for the way of row i, in the order the remote
\* source gives it, and begin and end of the row are its first and last node.
C13_NativeOrientation ==
    /\ Len(l_nodes) = Len(df)
    /\ \A i \in DOMAIN df :
          /\ l_nodes[i] = RemoteValue("get_way_by_id", df[i].way)
          /\ df[i].begin = l_nodes[i][1]
          /\ df[i].end = l_nodes[i][Len(l_nodes[i])]

\* a table of three rows whose first way has an inner node
C13_Witness ==
    /\ op = "get_relation_members"
    /\ pc = "done"
    /\ Len(df) = 3
    /\ l_nodes[1] = <<11, 12, 13>>
    /\ df[1].begin = 11
    /\ df[1].end = 13

\* the members whose role is not the given one, in their order
RECURSIVE KeepOthers(_, _)
KeepOthers(ways, value) ==
    IF ways = << >>
    THEN << >>
    ELSE IF Head(ways).role = value
         THEN KeepOthers(Tail(ways), value)
         ELSE <<Head(ways)>> \o KeepOthers(Tail(ways), value)

\* C14: with skip every member whose role is the given one is dropped before
\* any way is fetched and every other member is kept; without skip no member is
\* dropped for its role. Only members that were kept are fetched.
C14_RoleFilter ==
    Built => /\ members = IF skip THEN KeepOthers(relation, role) ELSE relation
             /\ idx > 1 => /\ last.fn = "get_way_by_id"
                           /\ last.key = members[idx - 1].ref

\* one of three members had the role and the other two were fetched
C14_Witness ==
    /\ pc = "done"
    /\ skip
    /\ role = "alternative"
    /\ Len(relation) = 3
    /\ Len(members) = 2
    /\ Len(df) = 2

\* C15: two calls of get_relation_members in a row on the same relation, with
\* the same arguments and a remote source that stays as it is, return the same
\* rows and node lists in the same order, whatever the first call cached.
C15_Idempotent ==
    (/\ op = "get_relation_members"
     /\ pc = "done"
     /\ prev.valid
     /\ Cardinality(prev.ups \cup ups) <= 1)
        => /\ df = prev.df
           /\ l_nodes = prev.l_nodes

\* the first call fetched from the remote source, the second was served from
\* the cache, and a member that cannot be fetched failed in both
C15_Witness ==
    /\ op = "get_relation_members"
    /\ pc = "done"
    /\ prev.valid
    /\ prev.ups = {TRUE}
    /\ ups = {}
    /\ Len(df) = 2
    /\ failed # {}

(* ----------------------------- the walk -------------------------------- *)
\* C16: the node where two ways used one after the other meet appears once in
\* the track, whether the second way is walked forward or reversed.
C16_JunctionOnce ==
    \A i \in 1 .. Len(track_points) - 1 : track_points[i] # track_points[i + 1]

\* C17: in every round a row that begins at the current node and is not the
\* way used last is walked forward, whatever rows end there; a row that ends
\* there is walked reversed only when no row begins there. The match looks at
\* begin, end and way only, for every value of the node ids. Stated for the
\* rounds in which one row matches, where no choice between rows is needed.
C17_ForwardFirst ==
    [][(/\ pc = "walk"
        /\ track_points' # track_points \/ pc' # "walk")
          => /\ Cardinality(Candidates("begin")) = 1
                  => /\ pc' = "walk"
                     /\ ~reverse'
                     /\ \E i \in Candidates("begin") : current_way' = <<df[i].way>>
             /\ (Candidates("begin") = {} /\ Cardinality(Candidates("end")) = 1)
                  => /\ pc' = "walk"
                     /\ reverse'
                     /\ \E i \in Candidates("end") : current_way' = <<df[i].way>>]_vars

\* C18: when the walk ends, no row but the way used last begins or ends at the
\* current node.
C18_Exhaustive ==
    (op = "create_track_points" /\ pc = "done")
        => (Candidates("begin") = {} /\ Candidates("end") = {})

\* C19: two rounds in a row never walk the same way, also when the search for a
\* row that begins at the current node fails and the one for a row that ends
\* there is made.
C19_NoBacktrack ==
    [][(/\ pc = "walk"
        /\ pc' = "walk"
        /\ track_points' # track_points
        /\ current_way # None)
          => current_way' # current_way]_vars

\* way 2 was walked forward to node 14, where it ends; the search for a row
\* that ends there left it out and took way 3
C19_Witness ==
    /\ pc = "walk"
    /\ reverse
    /\ current_way = <<3>>
    /\ track_points = <<13, 14, 14>>

\* the nodes where the rows begin or end
Ends == {df[i].begin : i \in Rows} \cup {df[i].end : i \in Rows}

\* how many row ends lie at the node
Degree(n) ==
    Cardinality({i \in Rows : df[i].begin = n}) + Cardinality({i \in Rows : df[i].end = n})

\* the table is a cycle of two or more different ways through the start node
TrueCycle ==
    /\ Len(df) >= 2
    /\ \A i, j \in Rows : i # j => df[i].way # df[j].way
    /\ \A n \in Ends : Degree(n) = 2
    /\ start_node \in Ends

\* C20: on a table that is a cycle of two or more different ways through the
\* start node the walk never ends: leaving out the way used last does not stop
\* it.
C20_CycleDiverges ==
    (op = "create_track_points" /\ pc \in {"walk", "done", "error"} /\ Built /\ TrueCycle)
        => pc = "walk"

\* C21: at the start of every round of the walk the current node is the last
\* node of the track, at first the start node; a round leaves the current node
\* at the last node of the list it walked.
C21_CurrentIsTail ==
    (op = "create_track_points" /\ pc \in {"walk", "done"})
        => current_node = track_points[Len(track_points)]

\* C22: the walk leaves the table, the node lists and the cached ways as they
\* were fetched: a way walked reversed is reversed in a copy, so after any
\* number of calls every cached way and every node list is what the remote
\* source holds, and begin and end of every row are its first and last node.
C22_NothingMutated ==
    /\ \A i \in DOMAIN cache["get_way_by_id"] :
          cache["get_way_by_id"][i].value =
              RemoteValue("get_way_by_id", cache["get_way_by_id"][i].key)
    /\ \A i \in DOMAIN l_nodes :
          LET fetched == RemoteValue("get_way_by_id", df[i].way)
          IN  /\ l_nodes[i] = fetched
              /\ df[i].begin = fetched[1]
              /\ df[i].end = fetched[Len(fetched)]

\* the walk has ended after walking way 3 reversed, and the way is in the cache
C22_Witness ==
    /\ op = "create_track_points"
    /\ pc = "done"
    /\ reverse
    /\ current_way = <<3>>
    /\ l_nodes = << <<13, 14>>, <<15, 14>> >>
    /\ 3 \in CacheKeys(cache["get_way_by_id"])

\* C23: a lookup that fails leaves its cache as it was: the key is not stored
\* and no entry is dropped. The same lookup made again asks the remote source
\* again and, when the source answers, stores the value and returns it.
C23_FailureNotCached ==
    [][IsLookup
          => LET fn == last'.fn
                 key == last'.key
             IN  /\ last'.status = "LookupError"
                      => /\ cache' = cache
                         /\ key \notin CacheKeys(cache'[fn])
                 /\ last'.again
                      => /\ last'.requests = 1
                         /\ RemoteAnswers
                              => /\ last'.status = "ok"
                                 /\ last'.value = RemoteValue(fn, key)
                                 /\ key \in CacheKeys(cache'[fn])
                                 /\ CacheValue(cache'[fn], key) = last'.value]_vars

\* a lookup failed while its cache was full, the same lookup was made again,
\* the remote source answered and the value is in the cache
C23_Witness ==
    /\ last.again
    /\ last.status = "ok"
    /\ last.requests = 1
    /\ last.key \in CacheKeys(cache[last.fn])
    /\ Len(cache[last.fn]) = maxsize[last.fn]
    /\ calls >= 3

====
